---- MODULE Spec2Model ----
(***************************************************************************)
(* The video pipeline route handler (POST) of the repository: four stages  *)
(* (script, enhance, video, upload) tracked in a per-request step log,     *)
(* with the external calls of every stage as suspension points.            *)
(*                                                                         *)
(* One action is one continuation of the async handler: the code that runs *)
(* between the settling of one awaited promise and the next await.  The    *)
(* last continuation is two actions: the upload stage is marked done, then *)
(* the response is built, which is code that can throw while no stage is   *)
(* marked working.                                                         *)
(***************************************************************************)
EXTENDS Integers, Sequences, FiniteSets, TLC

VARIABLES
    env,            \* process.env, fixed for the life of the process
    STEP_TEMPLATE,  \* the module-level array: a sequence of object references
    heap,           \* the StepLog objects, indexed by reference
    run             \* the state of every invocation of POST

vars == <<env, STEP_TEMPLATE, heap, run>>

(***************************************************************************)
(* Bounds of the model                                                     *)
(***************************************************************************)
MaxTopicLen == 200
MaxScriptLen == 5000
MaxVideoMb == 3
MaxSetCalls == 2

\* The request slots: a slot is "off" when no request arrives on it
Runs == {1, 2}

(***************************************************************************)
(* Program constants                                                       *)
(***************************************************************************)
TopicMin == 8
ToneMin == 3
ToneMax == 64
DurationMin == 30
DurationMax == 900
AudienceMin == 3
AudienceMax == 120
CallToActionMin == 3
CallToActionMax == 180
TitleMax == 95
DescriptionMax == 4800
TagTopicMax == 60
BytesPerMb == 1048576

\* JavaScript's undefined / null, where the code only tests for absence
UNDEFINED == "<undefined>"

\* JavaScript truthiness of a string-or-undefined value
Truthy(v) == v # UNDEFINED /\ v # ""

STEP_IDS == <<"script", "enhance", "video", "upload">>
STEP_LABELS == <<"Generate base script", "Enhance script", "Render video", "Publish to YouTube">>

REQUIRED_ENV_VARS ==
    <<"OPENAI_API_KEY", "GOOGLE_CLIENT_ID", "GOOGLE_CLIENT_SECRET", "GOOGLE_REFRESH_TOKEN">>

EnvKeys == {REQUIRED_ENV_VARS[i] : i \in 1..Len(REQUIRED_ENV_VARS)} \cup {"YOUTUBE_PRIVACY_STATUS"}

(***************************************************************************)
(* Sequence helpers                                                        *)
(***************************************************************************)
RECURSIVE Filter(_, _)
\* Array.prototype.filter for a predicate given as the set of kept values
Filter(seq, keep) ==
    IF seq = <<>> THEN <<>>
    ELSE (IF Head(seq) \in keep THEN <<Head(seq)>> ELSE <<>>) \o Filter(Tail(seq), keep)

RECURSIVE Join(_, _)
\* Array.prototype.join
Join(seq, sep) ==
    IF seq = <<>> THEN ""
    ELSE IF Len(seq) = 1 THEN seq[1]
    ELSE seq[1] \o sep \o Join(Tail(seq), sep)

(***************************************************************************)
(* Text.  A string value is a sequence of segments <<source, n>>: the      *)
(* first n UTF-16 units of the text named source.  A literal is a segment  *)
(* whose source is the literal itself.                                     *)
(***************************************************************************)
Lit(s) == IF Len(s) = 0 THEN <<>> ELSE << <<s, Len(s)>> >>
Txt(source, n) == IF n = 0 THEN <<>> ELSE << <<source, n>> >>

RECURSIVE StrLen(_)
StrLen(s) == IF s = <<>> THEN 0 ELSE Head(s)[2] + StrLen(Tail(s))

\* A slice that truncates nothing
sliceNone(s, n) == s

RECURSIVE slice(_, _)
\* String.prototype.slice(0, n)
slice(s, n) ==
    IF s = <<>> \/ n <= 0 THEN <<>>
    ELSE IF Head(s)[2] <= n THEN <<Head(s)>> \o slice(Tail(s), n - Head(s)[2])
    ELSE << <<Head(s)[1], n>> >>

(***************************************************************************)
(* StepLog objects and the step log                                        *)
(***************************************************************************)
StepLog(id, label, status, detail) ==
    [id |-> id, label |-> label, status |-> status, detail |-> detail]

\* The objects of the STEP_TEMPLATE literal
TemplateObjects ==
    [i \in 1..Len(STEP_IDS) |-> StepLog(STEP_IDS[i], STEP_LABELS[i], "idle", UNDEFINED)]

\* Array.prototype.find over indices: the least index of I, 0 for undefined
FirstIndex(I) == IF I = {} THEN 0 ELSE CHOOSE i \in I : \A j \in I : i <= j

\* A find whose callback leaves the comparison out: the first step that has an id
FindByIdFirst(h, log, id) == FirstIndex({i \in 1..Len(log) : Truthy(h[log[i]].id)})

\* log.find((step) => step?.id === id)
FindById(h, log, id) == FirstIndex({i \in 1..Len(log) : h[log[i]].id = id})

\* A find that looks for a status no step is in when the catch block runs
FindWorkingMisspelt(h, log) == FirstIndex({i \in 1..Len(log) : h[log[i]].status = "error"})

\* log.find((step) => step.status === "working")
FindWorking(h, log) == FirstIndex({i \in 1..Len(log) : h[log[i]].status = "working"})

\* An update that finds the entry and assigns nothing
setStepStatusNoAssign(h, log, id, status, detail) == h

\* An update that replaces the entry by a new object without its label
setStepStatusReplace(h, log, id, status, detail) ==
    LET i == FindById(h, log, id)
    IN  IF i = 0 THEN h
        ELSE [h EXCEPT ![log[i]] = StepLog(id, UNDEFINED, status, detail)]

\* setStepStatus: the heap after the call
setStepStatus(h, log, id, status, detail) ==
    LET i == FindById(h, log, id)
    IN  IF i = 0 THEN h
        ELSE [h EXCEPT ![log[i]] = [@ EXCEPT !.status = status, !.detail = detail]]

\* cloneStepLog: the heap with a fresh copy of every template object appended,
\* and the new array of references to the copies
cloneStepLogHeap(h, template) ==
    h \o [i \in 1..Len(template) |-> h[template[i]]]

\* A clone that returns the template's own objects
cloneStepLogRefsShared(h, template) == template

\* A clone that loses the last step
cloneStepLogRefsShort(h, template) ==
    [i \in 1..(Len(template) - 1) |-> Len(h) + i]

cloneStepLogRefs(h, template) ==
    [i \in 1..Len(template) |-> Len(h) + i]

\* What JSON serialisation of a log reads: the objects, in array order
Snapshot(h, log) == [i \in 1..Len(log) |-> h[log[i]]]

(***************************************************************************)
(* Configuration                                                           *)
(***************************************************************************)
\* A check of the first required key only
ensureEnvFirstOnly(e) ==
    Filter(<<REQUIRED_ENV_VARS[1]>>, {k \in DOMAIN e : ~Truthy(e[k])})

\* ensureEnv: the required keys whose value is falsy, in declaration order
ensureEnv(e) ==
    Filter(REQUIRED_ENV_VARS, {k \in DOMAIN e : ~Truthy(e[k])})

MissingEnvMessage(missing) ==
    "Missing required environment variables: " \o Join(missing, ", ")

(***************************************************************************)
(* Request validation                                                      *)
(***************************************************************************)
\* A request body: whether it parses as JSON, the length of every string
\* field and the value of the number field
Body(json, topic, tone, durationSeconds, audience, callToAction) ==
    [json |-> json, topic |-> topic, tone |-> tone, durationSeconds |-> durationSeconds,
     audience |-> audience, callToAction |-> callToAction]

\* The issues of z.string().min(lo).max(hi) on a string of length n
StringIssues(n, lo, hi, tooSmall) ==
    (IF n < lo THEN <<tooSmall>> ELSE <<>>)
        \o (IF n > hi THEN <<"String must contain at most " \o ToString(hi) \o " character(s)">>
            ELSE <<>>)

\* The issues of z.number().min(lo).max(hi)
NumberIssues(n, lo, hi) ==
    (IF n < lo THEN <<"Number must be greater than or equal to " \o ToString(lo)>> ELSE <<>>)
        \o (IF n > hi THEN <<"Number must be less than or equal to " \o ToString(hi)>>
            ELSE <<>>)

TooSmall(lo) == "String must contain at least " \o ToString(lo) \o " character(s)"

\* A schema without the upper limit of durationSeconds and the limits of callToAction
requestSchemaLoose(b) ==
    (IF b.topic < TopicMin THEN <<"Topic must be at least 8 characters.">> ELSE <<>>)
        \o StringIssues(b.tone, ToneMin, ToneMax, TooSmall(ToneMin))
        \o (IF b.durationSeconds < DurationMin
            THEN <<"Number must be greater than or equal to " \o ToString(DurationMin)>>
            ELSE <<>>)
        \o StringIssues(b.audience, AudienceMin, AudienceMax, TooSmall(AudienceMin))

\* requestSchema.safeParse: the issues, in field order; none means success
requestSchema(b) ==
    (IF b.topic < TopicMin THEN <<"Topic must be at least 8 characters.">> ELSE <<>>)
        \o StringIssues(b.tone, ToneMin, ToneMax, TooSmall(ToneMin))
        \o NumberIssues(b.durationSeconds, DurationMin, DurationMax)
        \o StringIssues(b.audience, AudienceMin, AudienceMax, TooSmall(AudienceMin))
        \o StringIssues(b.callToAction, CallToActionMin, CallToActionMax, TooSmall(CallToActionMin))

(***************************************************************************)
(* Thrown values                                                           *)
(***************************************************************************)
Err(msg) == [isError |-> TRUE, message |-> msg]
NonError == [isError |-> FALSE, message |-> UNDEFINED]
NoError == [isError |-> FALSE, message |-> "<none>"]

\* error instanceof Error ? error.message : "An unexpected error occurred."
ErrorDetail(e) == IF e.isError THEN e.message ELSE "An unexpected error occurred."

(***************************************************************************)
(* Inputs: the environments, requests and service answers of the model     *)
(***************************************************************************)
FullEnv ==
    [k \in EnvKeys |-> IF k = "YOUTUBE_PRIVACY_STATUS" THEN UNDEFINED ELSE "configured"]

Envs ==
    {FullEnv}
        \cup {[FullEnv EXCEPT ![REQUIRED_ENV_VARS[i]] = v] :
                i \in 1..Len(REQUIRED_ENV_VARS), v \in {UNDEFINED, ""}}
        \cup {[FullEnv EXCEPT !["YOUTUBE_PRIVACY_STATUS"] = p] :
                p \in {"", "public", "private", "unlisted"}}
        \cup {[k \in EnvKeys |-> UNDEFINED]}

\* Scenario request: "History of bridges", "Educational", 120, "General", "Subscribe!"
BaseBody == Body(TRUE, 18, 11, 120, 7, 10)

TopicLens == {0, 5, TopicMin - 1, TopicMin, TagTopicMax + 1, 71, 72, MaxTopicLen}
ToneLens == {ToneMin - 1, ToneMin, ToneMax, ToneMax + 1}
Durations == {DurationMin - 1, DurationMin, DurationMax, DurationMax + 1}
AudienceLens == {AudienceMin - 1, AudienceMin, AudienceMax, AudienceMax + 1}
CallToActionLens == {CallToActionMin - 1, CallToActionMin, CallToActionMax, CallToActionMax + 1}

Bodies ==
    {BaseBody, [BaseBody EXCEPT !.json = FALSE], Body(TRUE, 5, 2, 29, 121, 181),
     Body(TRUE, MaxTopicLen, ToneMax, DurationMax, AudienceMax, CallToActionMax)}
        \cup {[BaseBody EXCEPT !.topic = n] : n \in TopicLens}
        \cup {[BaseBody EXCEPT !.tone = n] : n \in ToneLens}
        \cup {[BaseBody EXCEPT !.durationSeconds = n] : n \in Durations}
        \cup {[BaseBody EXCEPT !.audience = n] : n \in AudienceLens}
        \cup {[BaseBody EXCEPT !.callToAction = n] : n \in CallToActionLens}

\* The content of a chat completion: absent, or a string of len units
\* that splits into `words` pieces on whitespace
Content(present, len, words) == [present |-> present, len |-> len, words |-> words]
NoText == Content(FALSE, 0, 0)
ContentTruthy(c) == c.present /\ c.len > 0

DraftContents == {NoText, Content(TRUE, 0, 0), Content(TRUE, 40, 7)}
EnhancedContents ==
    {NoText, Content(TRUE, 0, 0), Content(TRUE, 50, 9), Content(TRUE, 4721, 700),
     Content(TRUE, MaxScriptLen, 800)}

\* What an external call can reject with
Rejections(call) == {Err(call \o " failed"), NonError}

AudioSizes == {0, 2048}
ImagePayloads == {UNDEFINED, "", "aW1hZ2U"}
VideoSizes == {524288, MaxVideoMb * BytesPerMb + 5243}
VideoIds == {UNDEFINED, "", "dQw4w9WgXcQ", "abc123"}

\* The arguments of a direct call of setStepStatus: the ids of the template
\* and one that no step has, every status, a detail or none
StepStatuses == {"idle", "working", "done", "error"}
CallIds == {STEP_IDS[i] : i \in 1..Len(STEP_IDS)} \cup {"thumbnail"}
CallDetails == {UNDEFINED, "Rendering..."}

(***************************************************************************)
(* The state of one invocation of POST                                     *)
(***************************************************************************)
NoCall == [state |-> "none", b64_json |-> UNDEFINED, error |-> NoError]
NoCompletion == [kind |-> "none", error |-> NoError, bytes |-> 0, fits |-> TRUE]
NoVideo == [present |-> FALSE, bytes |-> 0, fits |-> TRUE]
NoUpload == [title |-> <<>>, description |-> <<>>, tags |-> <<>>, privacyStatus |-> UNDEFINED]
NoResult ==
    [present |-> FALSE, scriptDraft |-> NoText, enhancedScript |-> NoText,
     videoUrl |-> 0, youtubeUrl |-> UNDEFINED]
NoResponse ==
    [success |-> FALSE, status |-> 0, error |-> UNDEFINED, result |-> NoResult, log |-> <<>>]
NoThrown == [raised |-> FALSE, at |-> "none", error |-> NoError]
NoSetCall == [n |-> 0, id |-> UNDEFINED, status |-> "idle", detail |-> UNDEFINED]

InitRun(pc, body) ==
    [pc |-> pc,                    \* off | ready | the await suspended at | videoDataUrl | returned
     log |-> <<>>,                 \* const log: references into the heap
     body |-> body,                \* the body of the request
     missingEnv |-> <<>>,
     scriptDraft |-> NoText,
     enhancedScript |-> NoText,
     speech |-> NoCall,            \* openai.audio.speech.create
     image |-> NoCall,             \* openai.images.generate
     all |-> NoCall,               \* the Promise.all of the two
     audioBuffer |-> -1,           \* byte length, -1 before it exists
     imageBuffer |-> -1,
     tempDir |-> "none",           \* none | exists | removed
     files |-> {},                 \* the files inside tempDir
     pending |-> NoCompletion,     \* the completion the finally block resumes
     rmSettled |-> "none",         \* none | removed | failed
     videoBuffer |-> NoVideo,
     upload |-> NoUpload,          \* what videos.insert was called with
     issued |-> <<>>,              \* the external calls issued, in order
     inflight |-> {},              \* the external calls not yet settled
     failed |-> {},                \* the calls that rejected or answered nothing usable
     insert |-> [state |-> "none", id |-> UNDEFINED],  \* youtube.videos.insert and its response.data.id
     thrown |-> NoThrown,          \* the exception the catch block received
     lastSet |-> NoSetCall,        \* the last direct call of setStepStatus on log
     response |-> NoResponse,
     responses |-> 0]

Issue(rr, call) == [rr EXCEPT !.issued = Append(@, call), !.inflight = @ \cup {call}]
Settled(rr, call) == [rr EXCEPT !.inflight = @ \ {call}]
Failed(rr, call) == [rr EXCEPT !.failed = @ \cup {call}]
Issued(rr) == {rr.issued[i] : i \in 1..Len(rr.issued)}

\* return NextResponse.json({success, error | result, log}, {status})
Respond(rr, h, success, status, error, result) ==
    [rr EXCEPT !.pc = "returned",
               !.response = [success |-> success, status |-> status, error |-> error,
                             result |-> result, log |-> Snapshot(h, rr.log)],
               !.responses = @ + 1]

\* A catch block that looks for the failing step and marks nothing
catchBlockNoMark(h, log, error) == h

\* A catch block that marks every step that is not done as failed
catchBlockMarkRest(h, log, error) ==
    [ref \in 1..Len(h) |->
        IF (\E i \in 1..Len(log) : log[i] = ref) /\ h[ref].status # "done"
        THEN [h[ref] EXCEPT !.status = "error", !.detail = ErrorDetail(error)]
        ELSE h[ref]]

\* The catch block of POST, as far as it changes the log
catchBlock(h, log, error) ==
    LET failingStep == FindWorking(h, log)
    IN  IF failingStep # 0
        THEN setStepStatus(h, log, h[log[failingStep]].id, "error", ErrorDetail(error))
        ELSE h

\* An exception raised in `site` reaches the catch block of POST in run r,
\* whose record is rr and whose heap is h0
Catch(r, rr, h0, site, error) ==
    LET h == catchBlock(h0, rr.log, error)
        caught == [rr EXCEPT !.thrown = [raised |-> TRUE, at |-> site, error |-> error]]
    IN  /\ heap' = h
        /\ run' = [run EXCEPT ![r] = Respond(caught, h, FALSE, 500, ErrorDetail(error), NoResult)]

(***************************************************************************)
(* POST, up to the script stage                                            *)
(***************************************************************************)
Init ==
    /\ env \in Envs
    /\ STEP_TEMPLATE = [i \in 1..Len(STEP_IDS) |-> i]
    /\ heap = TemplateObjects
    /\ \E b \in Bodies :
        run = [r \in Runs |-> IF r = 1 THEN InitRun("ready", b)
                                       ELSE InitRun("off", Body(FALSE, 0, 0, 0, 0, 0))]

\* Two requests in flight at once, with complete configuration
InitConcurrent ==
    /\ env = FullEnv
    /\ STEP_TEMPLATE = [i \in 1..Len(STEP_IDS) |-> i]
    /\ heap = TemplateObjects
    /\ run = [r \in Runs |-> InitRun("ready", BaseBody)]

\* The request is dispatched: const log = cloneStepLog(); ensureEnv() is called
POST(r) ==
    /\ run[r].pc = "ready"
    /\ heap' = cloneStepLogHeap(heap, STEP_TEMPLATE)
    /\ run' = [run EXCEPT ![r] =
                 [@ EXCEPT !.pc = "ensureEnv",
                           !.log = cloneStepLogRefs(heap, STEP_TEMPLATE),
                           !.missingEnv = ensureEnv(env)]]
    /\ UNCHANGED <<env, STEP_TEMPLATE>>

\* await ensureEnv() resumes: the configuration check, then request.json()
EnsureEnvSettles(r) ==
    LET rr == run[r]
    IN  /\ rr.pc = "ensureEnv"
        /\ IF Len(rr.missingEnv) > 0
           THEN run' = [run EXCEPT ![r] =
                          Respond(rr, heap, FALSE, 500, MissingEnvMessage(rr.missingEnv), NoResult)]
           ELSE run' = [run EXCEPT ![r].pc = "request.json"]
        /\ UNCHANGED <<env, STEP_TEMPLATE, heap>>

\* await request.json() resumes: validation, then the script stage starts
RequestJsonSettles(r) ==
    LET rr == run[r]
        issues == requestSchema(rr.body)
    IN  /\ rr.pc = "request.json"
        /\ IF ~rr.body.json
           THEN Catch(r, rr, heap, "request.json", Err("Unexpected end of JSON input"))
           ELSE IF issues # <<>>
           THEN /\ run' = [run EXCEPT ![r] =
                             Respond(rr, heap, FALSE, 400, Join(issues, "; "), NoResult)]
                /\ heap' = heap
           ELSE /\ heap' = setStepStatus(heap, rr.log, "script", "working", "Drafting narration...")
                /\ run' = [run EXCEPT ![r] =
                             Issue([rr EXCEPT !.pc = "generateScriptDraft"], "draft")]
        /\ UNCHANGED <<env, STEP_TEMPLATE>>

\* await generateScriptDraft(...) resumes
GenerateScriptDraftSettles(r) ==
    LET rr == Settled(run[r], "draft")
    IN  /\ run[r].pc = "generateScriptDraft"
        /\ \/ \E e \in Rejections("chat.completions.create") :
                Catch(r, Failed(rr, "draft"), heap, "generateScriptDraft", e)
           \/ \E content \in DraftContents :
                IF ~ContentTruthy(content)
                THEN Catch(r, Failed(rr, "draft"), heap, "generateScriptDraft",
                           Err("Failed to generate script draft."))
                ELSE /\ heap' = setStepStatus(
                                  setStepStatus(heap, rr.log, "script", "done",
                                      "Draft complete (" \o ToString(content.words) \o " words)."),
                                  rr.log, "enhance", "working", "Polishing presentation...")
                     /\ run' = [run EXCEPT ![r] =
                                  Issue([rr EXCEPT !.pc = "enhanceScript",
                                                   !.scriptDraft = content], "enhance")]
        /\ UNCHANGED <<env, STEP_TEMPLATE>>

(***************************************************************************)
(* The enhance stage and generateAssets                                    *)
(***************************************************************************)
\* await enhanceScript(...) resumes; on success generateAssets issues the
\* speech call and the image call together
EnhanceScriptSettles(r) ==
    LET rr == Settled(run[r], "enhance")
    IN  /\ run[r].pc = "enhanceScript"
        /\ \/ \E e \in Rejections("chat.completions.create") :
                Catch(r, Failed(rr, "enhance"), heap, "enhanceScript", e)
           \/ \E content \in EnhancedContents :
                IF ~ContentTruthy(content)
                THEN Catch(r, Failed(rr, "enhance"), heap, "enhanceScript",
                           Err("Failed to enhance script."))
                ELSE /\ heap' = setStepStatus(
                                  setStepStatus(heap, rr.log, "enhance", "done",
                                      "Enhanced script ready (" \o ToString(content.words)
                                          \o " words)."),
                                  rr.log, "video", "working", "Rendering narration and visuals...")
                     /\ run' = [run EXCEPT ![r] =
                                  Issue(Issue([rr EXCEPT !.pc = "Promise.all",
                                                         !.enhancedScript = content,
                                                         !.speech.state = "inflight",
                                                         !.image.state = "inflight",
                                                         !.all.state = "pending"],
                                              "speech"), "image")]
        /\ UNCHANGED <<env, STEP_TEMPLATE>>

\* A join that fulfils with the first fulfilment, as Promise.any does
allAfterFulfilFirst(all, sibling) ==
    IF all.state = "pending" THEN [all EXCEPT !.state = "fulfilled"] ELSE all

\* Promise.all after one of its promises fulfils: fulfilled once both have
allAfterFulfil(all, sibling) ==
    IF all.state = "pending" /\ sibling.state = "resolved"
    THEN [all EXCEPT !.state = "fulfilled"] ELSE all

\* A join that never settles on a rejection
allAfterRejectIgnored(all, e) == all

\* A join that takes a rejection for a result
allAfterRejectFulfils(all, e) ==
    IF all.state = "pending" THEN [all EXCEPT !.state = "fulfilled"] ELSE all

\* Promise.all after one of its promises rejects: rejected with the first rejection
allAfterReject(all, e) ==
    IF all.state = "pending" THEN [all EXCEPT !.state = "rejected", !.error = e] ELSE all

\* openai.audio.speech.create settles
SpeechSettles(r) ==
    LET rr == Settled(run[r], "speech")
    IN  /\ run[r].speech.state = "inflight"
        /\ \/ run' = [run EXCEPT ![r] =
                        [rr EXCEPT !.speech.state = "resolved",
                                   !.all = allAfterFulfil(@, rr.image)]]
           \/ \E e \in Rejections("audio.speech.create") :
                run' = [run EXCEPT ![r] =
                          [Failed(rr, "speech") EXCEPT
                                     !.speech.state = "rejected", !.speech.error = e,
                                     !.all = allAfterReject(@, e)]]
        /\ UNCHANGED <<env, STEP_TEMPLATE, heap>>

\* openai.images.generate settles
ImageSettles(r) ==
    LET rr == Settled(run[r], "image")
    IN  /\ run[r].image.state = "inflight"
        /\ \/ \E payload \in ImagePayloads :
                run' = [run EXCEPT ![r] =
                          [(IF Truthy(payload) THEN rr ELSE Failed(rr, "image")) EXCEPT
                                     !.image.state = "resolved", !.image.b64_json = payload,
                                     !.all = allAfterFulfil(@, rr.speech)]]
           \/ \E e \in Rejections("images.generate") :
                run' = [run EXCEPT ![r] =
                          [Failed(rr, "image") EXCEPT
                                     !.image.state = "rejected", !.image.error = e,
                                     !.all = allAfterReject(@, e)]]
        /\ UNCHANGED <<env, STEP_TEMPLATE, heap>>

\* await Promise.all([...]) resumes; speechResponse.arrayBuffer() is called
PromiseAllSettles(r) ==
    LET rr == run[r]
    IN  /\ rr.pc = "Promise.all"
        /\ rr.all.state \in {"fulfilled", "rejected"}
        /\ IF rr.all.state = "rejected"
           THEN Catch(r, rr, heap, "generateAssets", rr.all.error)
           ELSE /\ run' = [run EXCEPT ![r] = Issue([rr EXCEPT !.pc = "arrayBuffer"], "arrayBuffer")]
                /\ heap' = heap
        /\ UNCHANGED <<env, STEP_TEMPLATE>>

\* Buffer.from(imageBase64, "base64").byteLength for an unpadded payload
base64Bytes(payload) == (Len(payload) * 3) \div 4

\* generateAssets without its check
imageMissingNever(b64_json) == FALSE

\* The check of generateAssets on the image payload
imageMissing(b64_json) == ~Truthy(b64_json)

\* await speechResponse.arrayBuffer() resumes: the rest of generateAssets,
\* then synthesizeVideo starts with fs.mkdtemp
ArrayBufferSettles(r) ==
    LET rr == Settled(run[r], "arrayBuffer")
    IN  /\ run[r].pc = "arrayBuffer"
        /\ \/ \E e \in Rejections("arrayBuffer") :
                Catch(r, Failed(rr, "arrayBuffer"), heap, "generateAssets", e)
           \/ \E bytes \in AudioSizes :
                IF imageMissing(rr.image.b64_json)
                THEN Catch(r, [rr EXCEPT !.audioBuffer = bytes], heap, "generateAssets",
                           Err("Image generation failed."))
                ELSE /\ run' = [run EXCEPT ![r] =
                                  Issue([rr EXCEPT !.pc = "mkdtemp",
                                                   !.audioBuffer = bytes,
                                                   !.imageBuffer = base64Bytes(rr.image.b64_json)],
                                        "mkdtemp")]
                     /\ heap' = heap
        /\ UNCHANGED <<env, STEP_TEMPLATE>>

(***************************************************************************)
(* synthesizeVideo                                                         *)
(***************************************************************************)
Throws(e) == [kind |-> "throw", error |-> e, bytes |-> 0, fits |-> TRUE]
Returns(bytes, fits) == [kind |-> "return", error |-> NoError, bytes |-> bytes, fits |-> fits]

\* Control leaves the try block with a completion: the finally block calls fs.rm
finallyBlock(rr, completion) ==
    Issue([rr EXCEPT !.pc = "rm", !.pending = completion], "rm")

\* await fs.mkdtemp(...) resumes; it is outside the try block
MkdtempSettles(r) ==
    LET rr == Settled(run[r], "mkdtemp")
    IN  /\ run[r].pc = "mkdtemp"
        /\ \/ \E e \in Rejections("mkdtemp") :
                Catch(r, Failed(rr, "mkdtemp"), heap, "synthesizeVideo", e)
           \/ /\ run' = [run EXCEPT ![r] =
                           Issue([rr EXCEPT !.pc = "writeFile(audio)", !.tempDir = "exists"],
                                 "writeFile(audio)")]
              /\ heap' = heap
        /\ UNCHANGED <<env, STEP_TEMPLATE>>

\* await fs.writeFile(audioPath, audioBuffer) resumes
WriteAudioSettles(r) ==
    LET rr == Settled(run[r], "writeFile(audio)")
    IN  /\ run[r].pc = "writeFile(audio)"
        /\ \/ \E e \in Rejections("writeFile") :
                run' = [run EXCEPT ![r] = finallyBlock(Failed(rr, "writeFile(audio)"), Throws(e))]
           \/ run' = [run EXCEPT ![r] =
                        Issue([rr EXCEPT !.pc = "writeFile(image)", !.files = @ \cup {"audio"}],
                              "writeFile(image)")]
        /\ UNCHANGED <<env, STEP_TEMPLATE, heap>>

\* await fs.writeFile(imagePath, imageBuffer) resumes; ffmpeg is started
WriteImageSettles(r) ==
    LET rr == Settled(run[r], "writeFile(image)")
    IN  /\ run[r].pc = "writeFile(image)"
        /\ \/ \E e \in Rejections("writeFile") :
                run' = [run EXCEPT ![r] = finallyBlock(Failed(rr, "writeFile(image)"), Throws(e))]
           \/ run' = [run EXCEPT ![r] =
                        Issue([rr EXCEPT !.pc = "ffmpeg", !.files = @ \cup {"image"}], "ffmpeg")]
        /\ UNCHANGED <<env, STEP_TEMPLATE, heap>>

\* ffmpeg emits "end" or "error"; on "end" fs.readFile(videoPath) is called
FfmpegSettles(r) ==
    LET rr == Settled(run[r], "ffmpeg")
    IN  /\ run[r].pc = "ffmpeg"
        /\ \/ \E e \in Rejections("ffmpeg") :
                run' = [run EXCEPT ![r] = finallyBlock(Failed(rr, "ffmpeg"), Throws(e))]
           \/ run' = [run EXCEPT ![r] =
                        Issue([rr EXCEPT !.pc = "readFile", !.files = @ \cup {"video"}], "readFile")]
        /\ UNCHANGED <<env, STEP_TEMPLATE, heap>>

\* await fs.readFile(videoPath) resumes
ReadFileSettles(r) ==
    LET rr == Settled(run[r], "readFile")
    IN  /\ run[r].pc = "readFile"
        /\ \/ \E e \in Rejections("readFile") :
                run' = [run EXCEPT ![r] = finallyBlock(Failed(rr, "readFile"), Throws(e))]
           \/ \E bytes \in VideoSizes, fits \in BOOLEAN :
                run' = [run EXCEPT ![r] = finallyBlock(rr, Returns(bytes, fits))]
        /\ UNCHANGED <<env, STEP_TEMPLATE, heap>>

\* A cleanup that removes the video file instead of the directory
rmEffectVideoOnly(rr, ok) ==
    IF ok THEN [rr EXCEPT !.files = @ \ {"video"}, !.rmSettled = "ok"]
    ELSE [Failed(rr, "rm") EXCEPT !.rmSettled = "failed"]

\* The filesystem after fs.rm(tempDir, {recursive: true, force: true}) settles;
\* a rejection is swallowed by .catch(() => undefined)
rmEffect(rr, ok) ==
    IF ok THEN [rr EXCEPT !.tempDir = "removed", !.files = {}, !.rmSettled = "ok"]
    ELSE [Failed(rr, "rm") EXCEPT !.rmSettled = "failed"]

\* (videoBuffer.byteLength / (1024 * 1024)).toFixed(2)
toFixed2Mb(bytes) ==
    LET rounded == ((bytes % BytesPerMb) * 100 + BytesPerMb \div 2) \div BytesPerMb
        whole == bytes \div BytesPerMb + (IF rounded = 100 THEN 1 ELSE 0)
        frac == IF rounded = 100 THEN 0 ELSE rounded
    IN  ToString(whole) \o "." \o (IF frac < 10 THEN "0" ELSE "") \o ToString(frac)

\* `${topic} | ${tone} explainer`
videoTitle(b) ==
    Txt("topic", b.topic) \o Lit(" | ") \o Txt("tone", b.tone) \o Lit(" explainer")

\* The description template of the upload stage
videoDescription(b, enhancedScript) ==
    Txt("enhancedScript", enhancedScript.len)
        \o Lit("\n\n---\nCall to action: ") \o Txt("callToAction", b.callToAction)
        \o Lit("\nAudience: ") \o Txt("audience", b.audience)
        \o Lit("\nAutomated by Agentic Studio.")

\* A visibility that falls back to public
privacyStatusPublicDefault(e) ==
    IF e["YOUTUBE_PRIVACY_STATUS"] = UNDEFINED THEN "public" ELSE e["YOUTUBE_PRIVACY_STATUS"]

\* process.env.YOUTUBE_PRIVACY_STATUS ?? "unlisted"
privacyStatus(e) ==
    IF e["YOUTUBE_PRIVACY_STATUS"] = UNDEFINED THEN "unlisted" ELSE e["YOUTUBE_PRIVACY_STATUS"]

\* The arguments POST and uploadToYouTube hand to youtube.videos.insert
uploadRequest(b, enhancedScript, e) ==
    [title |-> slice(videoTitle(b), TitleMax),
     description |-> slice(videoDescription(b, enhancedScript), DescriptionMax),
     tags |-> <<Lit("AI"), Lit("Automation"), Lit("YouTube Agent"),
                slice(Txt("topic", b.topic), TagTopicMax)>>,
     privacyStatus |-> privacyStatus(e)]

\* A finally block whose await of fs.rm has no catch handler: a rejected
\* deletion replaces the completion of the try block
finallyCompletionRaises(pending, outcome) ==
    IF outcome = NoError THEN pending ELSE Throws(outcome)

\* The completion of synthesizeVideo once the finally block is through:
\* .catch(() => undefined) turns a rejection of fs.rm into a fulfilment, so
\* the completion of the try block stands
finallyCompletion(pending, outcome) == pending

\* await fs.rm(...).catch(...) resumes: synthesizeVideo completes, and on a
\* normal completion the upload stage starts
RmSettles(r) ==
    LET settled == Settled(run[r], "rm")
    IN  /\ run[r].pc = "rm"
        /\ \E outcome \in {NoError} \cup Rejections("rm") :
            LET rr == rmEffect(settled, outcome = NoError)
                completion == finallyCompletion(rr.pending, outcome)
            IN  IF completion.kind = "throw"
                THEN Catch(r, rr, heap, "synthesizeVideo", completion.error)
                ELSE /\ heap' = setStepStatus(
                                  setStepStatus(heap, rr.log, "video", "done",
                                      "Video rendered (" \o toFixed2Mb(completion.bytes) \o " MB)."),
                                  rr.log, "upload", "working", "Uploading to YouTube...")
                     /\ run' = [run EXCEPT ![r] =
                                  Issue([rr EXCEPT
                                           !.pc = "videos.insert",
                                           !.videoBuffer = [present |-> TRUE,
                                                            bytes |-> completion.bytes,
                                                            fits |-> completion.fits],
                                           !.upload = uploadRequest(rr.body, rr.enhancedScript, env)],
                                        "videos.insert")]
        /\ UNCHANGED <<env, STEP_TEMPLATE>>

(***************************************************************************)
(* uploadToYouTube and the success response                                *)
(***************************************************************************)
\* A watch URL that leaves the identifier out
watchUrlNoId(videoId) == "https://www.youtube.com/watch?v="

\* `https://www.youtube.com/watch?v=${videoId}`
watchUrl(videoId) == "https://www.youtube.com/watch?v=" \o videoId

\* uploadToYouTube without its check
videoIdMissingNever(videoId) == FALSE

\* if (!videoId) throw ...
videoIdMissing(videoId) == ~Truthy(videoId)

\* The length of `data:video/mp4;base64,${videoBuffer.toString("base64")}`
videoDataUrlLen(bytes) == Len("data:video/mp4;base64,") + 4 * ((bytes + 2) \div 3)

\* await youtube.videos.insert(...) resumes: the rest of uploadToYouTube, and
\* POST marks the upload stage done
VideosInsertSettles(r) ==
    LET rr == Settled(run[r], "videos.insert")
    IN  /\ run[r].pc = "videos.insert"
        /\ \/ \E e \in Rejections("videos.insert") :
                Catch(r, Failed([rr EXCEPT !.insert.state = "rejected"], "videos.insert"), heap,
                      "uploadToYouTube", e)
           \/ \E videoId \in VideoIds :
                IF videoIdMissing(videoId)
                THEN Catch(r, Failed([rr EXCEPT !.insert = [state |-> "resolved", id |-> videoId]],
                                     "videos.insert"), heap,
                           "uploadToYouTube",
                           Err("Unable to retrieve YouTube video ID after upload."))
                ELSE /\ heap' = setStepStatus(heap, rr.log, "upload", "done",
                                               "Published to " \o watchUrl(videoId) \o ".")
                     /\ run' = [run EXCEPT ![r] =
                                  [rr EXCEPT !.pc = "videoDataUrl",
                                             !.insert = [state |-> "resolved", id |-> videoId]]]
        /\ UNCHANGED <<env, STEP_TEMPLATE>>

\* The code of POST after the upload stage is marked done: the data URL is
\* built from the video buffer and the success response is returned, or
\* toString throws and the catch block runs with no stage working
VideoDataUrlBuilt(r) ==
    LET rr == run[r]
    IN  /\ rr.pc = "videoDataUrl"
        /\ IF ~rr.videoBuffer.fits
           THEN Catch(r, rr, heap, "toString",
                      Err("Cannot create a string longer than 0x1fffffe8 characters"))
           ELSE /\ heap' = heap
                /\ run' = [run EXCEPT ![r] =
                             Respond(rr, heap, TRUE, 200, UNDEFINED,
                                     [present |-> TRUE,
                                      scriptDraft |-> rr.scriptDraft,
                                      enhancedScript |-> rr.enhancedScript,
                                      videoUrl |-> videoDataUrlLen(rr.videoBuffer.bytes),
                                      youtubeUrl |-> watchUrl(rr.insert.id)])]
        /\ UNCHANGED <<env, STEP_TEMPLATE>>

\* The continuations of run r
RunStep(r) ==
    \/ POST(r)
    \/ EnsureEnvSettles(r)
    \/ RequestJsonSettles(r)
    \/ GenerateScriptDraftSettles(r)
    \/ EnhanceScriptSettles(r)
    \/ SpeechSettles(r)
    \/ ImageSettles(r)
    \/ PromiseAllSettles(r)
    \/ ArrayBufferSettles(r)
    \/ MkdtempSettles(r)
    \/ WriteAudioSettles(r)
    \/ WriteImageSettles(r)
    \/ FfmpegSettles(r)
    \/ ReadFileSettles(r)
    \/ RmSettles(r)
    \/ VideosInsertSettles(r)
    \/ VideoDataUrlBuilt(r)

Next == \E r \in Runs : RunStep(r)

Spec == Init /\ [][Next]_vars

SpecConcurrent == InitConcurrent /\ [][Next]_vars

\* Every awaited promise settles in the end (each external call and file
\* operation resolves or rejects) and the event loop then runs the
\* continuation that waits for it; a request that has arrived is dispatched.
\* So a run that can take a step does take one
Fairness == \A r \in Runs : WF_vars(RunStep(r))

\* One request: complete or incomplete configuration, and a body that is
\* valid, violates the schema, or is not JSON
InitLive ==
    /\ env \in {FullEnv, [FullEnv EXCEPT !["OPENAI_API_KEY"] = UNDEFINED]}
    /\ STEP_TEMPLATE = [i \in 1..Len(STEP_IDS) |-> i]
    /\ heap = TemplateObjects
    /\ \E b \in {BaseBody, [BaseBody EXCEPT !.json = FALSE], Body(TRUE, 5, 2, 29, 121, 181)} :
        run = [r \in Runs |-> IF r = 1 THEN InitRun("ready", b)
                                       ELSE InitRun("off", Body(FALSE, 0, 0, 0, 0, 0))]

SpecLive == InitLive /\ [][Next]_vars /\ Fairness

(***************************************************************************)
(* setStepStatus on its own: a caller that holds the log of a dispatched   *)
(* request and calls setStepStatus with arbitrary arguments                *)
(***************************************************************************)
InitSetStepStatus ==
    /\ env = FullEnv
    /\ STEP_TEMPLATE = [i \in 1..Len(STEP_IDS) |-> i]
    /\ heap = TemplateObjects
    /\ run = [r \in Runs |-> IF r = 1 THEN InitRun("ready", BaseBody)
                                      ELSE InitRun("off", Body(FALSE, 0, 0, 0, 0, 0))]

\* setStepStatus(log, id, status, detail) returns
SetStepStatusCall(r) ==
    /\ run[r].pc = "ensureEnv"
    /\ run[r].lastSet.n < MaxSetCalls
    /\ \E id \in CallIds, status \in StepStatuses, detail \in CallDetails :
        /\ heap' = setStepStatus(heap, run[r].log, id, status, detail)
        /\ run' = [run EXCEPT ![r].lastSet =
                     [n |-> @.n + 1, id |-> id, status |-> status, detail |-> detail]]
    /\ UNCHANGED <<env, STEP_TEMPLATE>>

NextSetStepStatus ==
    \E r \in Runs :
        \/ POST(r)
        \/ SetStepStatusCall(r)

SpecSetStepStatus == InitSetStepStatus /\ [][NextSetStepStatus]_vars

(***************************************************************************)
(* Vocabulary of the properties                                            *)
(***************************************************************************)
Returned(r) == run[r].pc = "returned"
Statuses(log) == [i \in 1..Len(log) |-> log[i].status]
Ids(log) == [i \in 1..Len(log) |-> log[i].id]
LiveStatuses(r) == Statuses(Snapshot(heap, run[r].log))
AllIdle(statuses) == \A i \in 1..Len(statuses) : statuses[i] = "idle"
NonEmpty(detail) == detail # UNDEFINED /\ detail # ""

\* The stage (1..4) that is marked working while `site` runs, 0 for none
StageOfSite(site) ==
    CASE site = "generateScriptDraft" -> 1
      [] site = "enhanceScript" -> 2
      [] site \in {"generateAssets", "synthesizeVideo"} -> 3
      [] site = "uploadToYouTube" -> 4
      [] OTHER -> 0

ConfigMissing ==
    \E i \in 1..Len(REQUIRED_ENV_VARS) : env[REQUIRED_ENV_VARS[i]] \in {UNDEFINED, ""}

ViolatesSchema(b) ==
    \/ b.topic < 8
    \/ b.tone < 3 \/ b.tone > 64
    \/ b.durationSeconds < 30 \/ b.durationSeconds > 900
    \/ b.audience < 3 \/ b.audience > 120
    \/ b.callToAction < 3 \/ b.callToAction > 180

FileAndLaterCalls ==
    {"mkdtemp", "writeFile(audio)", "writeFile(image)", "ffmpeg", "readFile", "rm", "videos.insert"}

RECURSIVE IsPrefix(_, _)
\* Whether text a is a prefix of text b
IsPrefix(a, b) ==
    IF a = <<>> THEN TRUE
    ELSE IF b = <<>> THEN FALSE
    ELSE /\ Head(a)[1] = Head(b)[1]
         /\ \/ Head(a)[2] = Head(b)[2] /\ IsPrefix(Tail(a), Tail(b))
            \/ Head(a)[2] < Head(b)[2] /\ Tail(a) = <<>>

C2_OneResponseFourStages ==
    \A r \in Runs :
        /\ run[r].responses = (IF Returned(r) THEN 1 ELSE 0)
        /\ Returned(r) =>
            /\ run[r].response.success \in BOOLEAN
            /\ Ids(run[r].response.log) = <<"script", "enhance", "video", "upload">>

C2_Witness ==
    \E r \in Runs :
        /\ Returned(r)
        /\ run[r].response.status = 400
        /\ run[r].responses = 1
        /\ Len(run[r].response.log) = 4

(***************************************************************************)
(* C3: with complete configuration, a valid request and every external     *)
(* call succeeding with a usable result (text non-empty, speech body       *)
(* readable, image payload present, video file readable and small enough   *)
(* to encode, identifier returned) POST returns success:true with all four *)
(* stages done and the watch URL of the returned identifier; and           *)
(* success:true is never returned unless all four stages are done.         *)
(***************************************************************************)
AllUsable(r) ==
    /\ ~ConfigMissing
    /\ run[r].body.json
    /\ ~ViolatesSchema(run[r].body)
    /\ run[r].failed \ {"rm"} = {}
    /\ run[r].videoBuffer.present => run[r].videoBuffer.fits

C4_ExpectedMissing ==
    SelectSeq(REQUIRED_ENV_VARS, LAMBDA k : env[k] \in {UNDEFINED, ""})

\* C4: a missing required value gives the configuration error with every
\* stage idle at all times and no external call
C4_ConfigurationError ==
    \A r \in Runs :
        ConfigMissing =>
            /\ AllIdle(LiveStatuses(r))
            /\ run[r].issued = <<>>
            /\ run[r].pc \in {"off", "ready", "ensureEnv", "returned"}
            /\ Returned(r) =>
                /\ ~run[r].response.success
                /\ ~run[r].thrown.raised
                /\ run[r].response.error
                        = "Missing required environment variables: "
                            \o Join(C4_ExpectedMissing, ", ")
                /\ Len(run[r].response.log) = 4
                /\ AllIdle(Statuses(run[r].response.log))

C4_Witness ==
    \E r \in Runs :
        /\ Returned(r)
        /\ env["GOOGLE_REFRESH_TOKEN"] = UNDEFINED
        /\ env["OPENAI_API_KEY"] # UNDEFINED
        /\ ~ViolatesSchema(run[r].body)
        /\ run[r].response.error
                = "Missing required environment variables: GOOGLE_REFRESH_TOKEN"

(***************************************************************************)
(* C5: for every request that violates the schema, POST returns            *)
(* success:false before any stage starts: all four stages are idle in the  *)
(* returned log and no external call is issued.                            *)
(***************************************************************************)
C5_ValidationError ==
    \A r \in Runs :
        (run[r].pc # "off" /\ ViolatesSchema(run[r].body)) =>
            /\ AllIdle(LiveStatuses(r))
            /\ run[r].issued = <<>>
            /\ Returned(r) =>
                /\ ~run[r].response.success
                /\ NonEmpty(run[r].response.error)
                /\ Len(run[r].response.log) = 4
                /\ AllIdle(Statuses(run[r].response.log))

C5_Witness ==
    \E r \in Runs :
        /\ Returned(r)
        /\ ~ConfigMissing
        /\ run[r].body.json
        /\ run[r].body.topic = 5
        /\ run[r].response.status = 400
        /\ run[r].response.error = "Topic must be at least 8 characters."

(***************************************************************************)
(* C6: after synthesizeVideo finishes, by returning a video buffer or by   *)
(* failing, the temporary directory it created no longer exists.           *)
(* C6_WorkspaceAbsent is the claim as stated; C6_WorkspaceAbsentUnlessRmFails *)
(* is what the finally block gives: the recursive deletion has been called *)
(* and has settled, and the directory and its files are gone whenever that *)
(* deletion succeeded; when it fails the failure is swallowed and the      *)
(* directory stays.                                                        *)
(***************************************************************************)
SynthesizeVideoFinished(r) ==
    /\ run[r].tempDir # "none"
    /\ run[r].pc \in {"videos.insert", "videoDataUrl", "returned"}

\* C6 as stated: once synthesizeVideo has finished its directory does not exist
C6_WorkspaceAbsent ==
    \A r \in Runs : SynthesizeVideoFinished(r) => run[r].tempDir # "exists"

\* C6 amended: the deletion was called and has settled, and the directory is
\* gone whenever the deletion succeeded
C6_WorkspaceAbsentUnlessRmFails ==
    \A r \in Runs :
        SynthesizeVideoFinished(r) =>
            /\ "rm" \in Issued(run[r])
            /\ "rm" \notin run[r].inflight
            /\ run[r].rmSettled \in {"ok", "failed"}
            /\ run[r].rmSettled = "ok" => (run[r].tempDir = "removed" /\ run[r].files = {})

C6_Witness ==
    \E r \in Runs :
        /\ SynthesizeVideoFinished(r)
        /\ run[r].pending.kind = "throw"
        /\ "ffmpeg" \in run[r].failed
        /\ run[r].rmSettled = "ok"
        /\ run[r].tempDir = "removed"

(***************************************************************************)
(* C7: generateAssets never returns an asset pair whose image is absent or *)
(* whose audio is absent or empty.                                         *)
(***************************************************************************)
GenerateAssetsReturned(r) == "mkdtemp" \in Issued(run[r])

\* C7: a returned asset pair has an image and a non-empty audio buffer
C7_NoPartialAssets ==
    \A r \in Runs :
        GenerateAssetsReturned(r) =>
            /\ run[r].imageBuffer # -1
            /\ Truthy(run[r].image.b64_json)
            /\ run[r].audioBuffer > 0

(***************************************************************************)
(* C8: when the image service returns no payload the run fails before any  *)
(* file I/O: no temporary directory, no muxing, no publishing, and the     *)
(* response is success:false with script and enhance done, video in error  *)
(* and upload idle.  C8_ImageFailureMessage is the claim as stated, with   *)
(* the image-generation message as the detail in every case;               *)
(* C8_ImageFailureBeforeFileIO gives that message when the speech call and *)
(* the reading of its body succeeded, and the message of the speech        *)
(* failure otherwise.                                                      *)
(***************************************************************************)
NoImagePayload(r) ==
    /\ run[r].image.state = "resolved"
    /\ run[r].image.b64_json \in {UNDEFINED, ""}

C8_NoFileIO(r) ==
    /\ run[r].tempDir = "none"
    /\ run[r].files = {}
    /\ Issued(run[r]) \cap FileAndLaterCalls = {}

C8_FailedInVideo(r) ==
    /\ ~run[r].response.success
    /\ ~run[r].response.result.present
    /\ Statuses(run[r].response.log) = <<"done", "done", "error", "idle">>

\* C8 as stated: no payload => no file I/O, failure in the video stage with the
\* image-generation message
C8_ImageFailureMessage ==
    \A r \in Runs :
        NoImagePayload(r) =>
            /\ C8_NoFileIO(r)
            /\ Returned(r) =>
                /\ C8_FailedInVideo(r)
                /\ run[r].response.log[3].detail = "Image generation failed."

\* C8 amended: no payload => no file I/O, failure in the video stage; the
\* image-generation message unless the speech call or its body read rejected
C8_ImageFailureBeforeFileIO ==
    \A r \in Runs :
        NoImagePayload(r) =>
            /\ C8_NoFileIO(r)
            /\ Returned(r) =>
                /\ C8_FailedInVideo(r)
                /\ IF run[r].failed \cap {"speech", "arrayBuffer"} = {}
                   THEN run[r].response.log[3].detail = "Image generation failed."
                   ELSE /\ run[r].thrown.error # Err("Image generation failed.")
                        /\ run[r].thrown.error
                              \in Rejections("audio.speech.create") \cup Rejections("arrayBuffer")
                        /\ run[r].response.log[3].detail = ErrorDetail(run[r].thrown.error)

C8_Witness ==
    \E r \in Runs :
        /\ Returned(r)
        /\ NoImagePayload(r)
        /\ run[r].speech.state = "resolved"
        /\ run[r].audioBuffer > 0
        /\ run[r].response.log[3].detail = "Image generation failed."

(***************************************************************************)
(* C9: the title submitted to the publishing service is at most 95         *)
(* characters and the description at most 4800, each a prefix of the       *)
(* untruncated text, for all input lengths.                                *)
(***************************************************************************)
C9_TruncatedMetadata ==
    \A r \in Runs :
        "videos.insert" \in Issued(run[r]) =>
            /\ StrLen(run[r].upload.title) <= 95
            /\ StrLen(run[r].upload.description) <= 4800
            /\ IsPrefix(run[r].upload.title, videoTitle(run[r].body))
            /\ IsPrefix(run[r].upload.description,
                        videoDescription(run[r].body, run[r].enhancedScript))

C9_Witness ==
    \E r \in Runs :
        /\ "videos.insert" \in Issued(run[r])
        /\ StrLen(videoTitle(run[r].body)) > 95
        /\ StrLen(videoDescription(run[r].body, run[r].enhancedScript)) > 4800
        /\ StrLen(run[r].upload.title) = 95
        /\ StrLen(run[r].upload.description) = 4800

(***************************************************************************)
(* C10: if the publishing service accepts the upload but returns no        *)
(* identifier, uploadToYouTube fails, the upload stage ends in error with  *)
(* script, enhance and video done, and the response is success:false with  *)
(* no published URL.                                                       *)
(***************************************************************************)
NoIdentifier(r) ==
    /\ run[r].insert.state = "resolved"
    /\ run[r].insert.id \in {UNDEFINED, ""}

\* C10: a resolved insert without identifier ends the run in failure at upload
C10_NoIdentifierFails ==
    \A r \in Runs :
        NoIdentifier(r) =>
            /\ Returned(r)
            /\ ~run[r].response.success
            /\ run[r].thrown.raised
            /\ run[r].thrown.at = "uploadToYouTube"
            /\ Statuses(run[r].response.log) = <<"done", "done", "done", "error">>
            /\ run[r].response.log[4].detail
                    = "Unable to retrieve YouTube video ID after upload."
            /\ ~run[r].response.result.present
            /\ run[r].response.result.youtubeUrl = UNDEFINED

C10_Witness ==
    \E r \in Runs :
        /\ Returned(r)
        /\ NoIdentifier(r)
        /\ run[r].insert.id = UNDEFINED
        /\ run[r].response.status = 500

\* C11: the visibility handed to youtube.videos.insert is the configured
\* YOUTUBE_PRIVACY_STATUS when the variable is defined and "unlisted" when it
\* is not; it is "public" only when the variable is exactly "public"
C11_Visibility ==
    \A r \in Runs :
        "videos.insert" \in Issued(run[r]) =>
            /\ run[r].upload.privacyStatus
                  = (IF env["YOUTUBE_PRIVACY_STATUS"] = UNDEFINED THEN "unlisted"
                     ELSE env["YOUTUBE_PRIVACY_STATUS"])
            /\ (run[r].upload.privacyStatus = "public"
                    => env["YOUTUBE_PRIVACY_STATUS"] = "public")

C11_Witness ==
    \E r \in Runs :
        /\ "videos.insert" \in Issued(run[r])
        /\ env["YOUTUBE_PRIVACY_STATUS"] = UNDEFINED
        /\ run[r].upload.privacyStatus = "unlisted"

\* The references of a log, and whether one of its steps has the id
Refs(log) == {log[i] : i \in 1..Len(log)}
HasId(h, log, id) == \E i \in 1..Len(log) : h[log[i]].id = id

\* C12: a call of setStepStatus with an id that no step of the log has
\* returns and leaves the heap as it was; a call with an id of the log
\* assigns status and detail of that step and leaves every other object, and
\* the id and label of every object, as they were
C12_SetStepStatusFrame ==
    [][\A r \in Runs :
        run'[r].lastSet.n = run[r].lastSet.n + 1 =>
            LET c == run'[r].lastSet
                log == run[r].log
            IN  /\ run'[r].log = log
                /\ Len(heap') = Len(heap)
                /\ ~HasId(heap, log, c.id) => heap' = heap
                /\ HasId(heap, log, c.id) =>
                      \A ref \in 1..Len(heap) :
                          /\ heap'[ref].id = heap[ref].id
                          /\ heap'[ref].label = heap[ref].label
                          /\ IF ref \in Refs(log) /\ heap[ref].id = c.id
                             THEN /\ heap'[ref].status = c.status
                                  /\ heap'[ref].detail = c.detail
                             ELSE heap'[ref] = heap[ref]]_vars

\* Two calls were made: one changed a step, the last one named no step
C12_Witness ==
    \E r \in Runs :
        /\ run[r].lastSet.n = 2
        /\ run[r].lastSet.id \notin CallIds \ {"thumbnail"}
        /\ ~AllIdle(LiveStatuses(r))
        /\ Ids(Snapshot(heap, run[r].log)) = STEP_IDS

\* The awaits of the four stages, and the stage (1..4) each belongs to
StagePcs ==
    {"generateScriptDraft", "enhanceScript", "Promise.all", "arrayBuffer", "mkdtemp",
     "writeFile(audio)", "writeFile(image)", "ffmpeg", "readFile", "rm", "videos.insert"}
StageOfPc(pc) ==
    CASE pc = "generateScriptDraft" -> 1
      [] pc = "enhanceScript" -> 2
      [] pc = "videos.insert" -> 4
      [] OTHER -> 3
Working(statuses) == {i \in 1..Len(statuses) : statuses[i] = "working"}

\* C13 as stated: from the start of stage 1 until the response is returned
\* exactly one stage is working
C13_OneWorking ==
    \A r \in Runs :
        run[r].pc \in StagePcs \cup {"videoDataUrl"} =>
            Cardinality(Working(LiveStatuses(r))) = 1

\* C13: at every await from the start of stage 1 up to the marking of the
\* upload stage as done exactly one stage is working, the stage whose call is
\* awaited; from then until the response is returned all four stages are
\* done and none is working
C13_OneWorkingUntilUploadDone ==
    \A r \in Runs :
        /\ run[r].pc \in StagePcs =>
                Working(LiveStatuses(r)) = {StageOfPc(run[r].pc)}
        /\ run[r].pc = "videoDataUrl" =>
                LiveStatuses(r) = <<"done", "done", "done", "done">>

C13_Witness ==
    \E r \in Runs :
        /\ run[r].pc = "videos.insert"
        /\ LiveStatuses(r) = <<"done", "done", "done", "working">>

\* The status changes a stage may make in one step
StatusEdges == {<<"idle", "working">>, <<"working", "done">>, <<"working", "error">>}

\* C14: every stage of a run starts idle and its status only moves along
\* idle -> working -> done or idle -> working -> error: never from idle to
\* done or error, never back to working, never out of done or error
C14_StatusTransitions ==
    [][\A r \in Runs :
        /\ (run[r].log = <<>> /\ run'[r].log # <<>>) =>
                AllIdle(Statuses(Snapshot(heap', run'[r].log)))
        /\ run[r].log # <<>> =>
                /\ run'[r].log = run[r].log
                /\ \A i \in 1..Len(run[r].log) :
                      LET old == heap[run[r].log[i]].status
                          new == heap'[run[r].log[i]].status
                      IN  old = new \/ <<old, new>> \in StatusEdges]_vars

C14_Witness ==
    \E r \in Runs :
        /\ Returned(r)
        /\ LiveStatuses(r) = <<"done", "done", "error", "idle">>
        /\ run[r].thrown.at = "synthesizeVideo"

\* The stage (1..4) an external call belongs to
StageOfCall(call) ==
    CASE call = "draft" -> 1
      [] call = "enhance" -> 2
      [] call = "videos.insert" -> 4
      [] OTHER -> 3

\* C15: whenever a call of stage N > 1 has been issued, stage N-1 is done in
\* the log; once a call has failed its stage, or a stage is marked error, no
\* call of a later stage has been issued; videos.insert has been issued only
\* with the video stage done.  (A failed fs.rm is swallowed and fails nothing.)
C15_StageOrder ==
    \A r \in Runs :
        /\ \A c \in Issued(run[r]) :
              StageOfCall(c) > 1 => LiveStatuses(r)[StageOfCall(c) - 1] = "done"
        /\ \A f \in run[r].failed \ {"rm"} :
              \A c \in Issued(run[r]) : StageOfCall(c) <= StageOfCall(f)
        /\ \A k \in 1..Len(LiveStatuses(r)) :
              LiveStatuses(r)[k] = "error" =>
                  \A c \in Issued(run[r]) : StageOfCall(c) <= k
        /\ "videos.insert" \in Issued(run[r]) => LiveStatuses(r)[3] = "done"

C15_Witness ==
    \E r \in Runs :
        /\ Returned(r)
        /\ LiveStatuses(r) = <<"done", "error", "idle", "idle">>
        /\ run[r].issued = <<"draft", "enhance">>
        /\ run[r].failed = {"enhance"}

\* The rejections of the speech call and the image call of run r so far
AssetRejections(r) ==
    (IF run[r].speech.state = "rejected" THEN {run[r].speech.error} ELSE {})
        \cup (IF run[r].image.state = "rejected" THEN {run[r].image.error} ELSE {})

\* C16: in every order of settling, once the speech call or the image call
\* has rejected, Promise.all is rejected with a rejection of one of them, no
\* buffer is made of the sibling's result and no later call (arrayBuffer,
\* mkdtemp) is issued, and when the handler resumes the run fails in
\* generateAssets with that rejection; fs.mkdtemp is issued only with both
\* calls resolved
C16_JoinedAssets ==
    \A r \in Runs :
        /\ AssetRejections(r) # {} =>
              /\ run[r].all.state = "rejected"
              /\ run[r].all.error \in AssetRejections(r)
              /\ {"arrayBuffer", "mkdtemp"} \cap Issued(run[r]) = {}
              /\ run[r].audioBuffer = -1 /\ run[r].imageBuffer = -1
              /\ run[r].pc \in {"Promise.all", "returned"}
              /\ Returned(r) =>
                    /\ ~run[r].response.success
                    /\ run[r].thrown.at = "generateAssets"
                    /\ run[r].thrown.error = run[r].all.error
        /\ "mkdtemp" \in Issued(run[r]) =>
              /\ run[r].speech.state = "resolved"
              /\ run[r].image.state = "resolved"

\* The speech call rejected after the image call had delivered its payload
C16_Witness ==
    \E r \in Runs :
        /\ Returned(r)
        /\ run[r].speech.state = "rejected"
        /\ run[r].image.state = "resolved"
        /\ Truthy(run[r].image.b64_json)
        /\ run[r].thrown.error = run[r].speech.error
        /\ run[r].imageBuffer = -1

\* C17: once the deletion of the workspace has settled, with or without
\* success, the caller of synthesizeVideo has what the try block completed
\* with: its error (write, muxing or read failure), caught by POST as thrown
\* by synthesizeVideo, or its video buffer, with the run going on to the
\* upload; an error of the deletion is never what the caller receives
C17_DeletionKeepsOutcome ==
    \A r \in Runs :
        run[r].rmSettled # "none" =>
            /\ run[r].pending.kind \in {"throw", "return"}
            /\ run[r].pending.kind = "throw" =>
                  /\ Returned(r)
                  /\ run[r].thrown.at = "synthesizeVideo"
                  /\ run[r].thrown.error = run[r].pending.error
                  /\ ~run[r].videoBuffer.present
            /\ run[r].pending.kind = "return" =>
                  /\ run[r].videoBuffer = [present |-> TRUE,
                                           bytes |-> run[r].pending.bytes,
                                           fits |-> run[r].pending.fits]
                  /\ "videos.insert" \in Issued(run[r])
                  /\ run[r].thrown.at \in {"none", "uploadToYouTube", "toString"}

\* Muxing failed and then the deletion failed too
C17_Witness ==
    \E r \in Runs :
        /\ run[r].rmSettled = "failed"
        /\ "ffmpeg" \in run[r].failed
        /\ run[r].pending.kind = "throw"
        /\ run[r].thrown.error = Err("ffmpeg failed")

\* C18: in every step of two concurrent runs, a log that is created consists
\* of four objects that did not exist before, equal to the idle template; the
\* log of a run that does not take the step is left as it was, object by
\* object; and the template array and its objects are left as they were
C18_IsolatedLogs ==
    [][/\ \A r \in Runs :
            /\ (run[r].log = <<>> /\ run'[r].log # <<>>) =>
                  /\ Snapshot(heap', run'[r].log) = TemplateObjects
                  /\ Cardinality(Refs(run'[r].log)) = Len(STEP_IDS)
                  /\ Refs(run'[r].log) \cap (1..Len(heap)) = {}
            /\ run'[r] = run[r] =>
                  Snapshot(heap', run[r].log) = Snapshot(heap, run[r].log)
       /\ STEP_TEMPLATE' = STEP_TEMPLATE
       /\ Snapshot(heap', STEP_TEMPLATE) = TemplateObjects]_vars

\* Two runs at different stages, each with its own statuses
C18_Witness ==
    /\ LiveStatuses(1) = <<"done", "working", "idle", "idle">>
    /\ LiveStatuses(2) = <<"done", "done", "error", "idle">>
    /\ AllIdle(Statuses(Snapshot(heap, STEP_TEMPLATE)))

\* The steps of a log that are in the given status
InStatus(log, status) == {i \in 1..Len(log) : log[i].status = status}

\* C19: a success:false response returned after the script stage was marked
\* working carries a log with exactly one stage in error
C19_OneErrorStage ==
    \A r \in Runs :
        (Returned(r) /\ ~run[r].response.success /\ "draft" \in Issued(run[r])) =>
            Cardinality(InStatus(run[r].response.log, "error")) = 1

\* C20: no returned log has a stage in working: every stage of it is idle,
\* done or error
C20_NoWorkingReturned ==
    \A r \in Runs :
        Returned(r) =>
            /\ InStatus(run[r].response.log, "working") = {}
            /\ \A i \in 1..Len(run[r].response.log) :
                  run[r].response.log[i].status \in {"idle", "done", "error"}

C20_Witness ==
    \E r \in Runs :
        /\ Returned(r)
        /\ run[r].thrown.at = "generateScriptDraft"
        /\ Statuses(run[r].response.log) = <<"error", "idle", "idle", "idle">>

\* C21 as stated: when the response is returned no call of the run is in flight
C21_NothingInFlight ==
    \A r \in Runs : Returned(r) => run[r].inflight = {}

\* C21: when the response is returned no call of the run is in flight, except
\* the speech call or the image call whose sibling rejected: Promise.all
\* rejects with the first rejection and the run fails in generateAssets
\* without waiting for the other call
C21_OnlySiblingInFlight ==
    \A r \in Runs :
        Returned(r) =>
            /\ run[r].inflight \in {{}, {"speech"}, {"image"}}
            /\ "speech" \in run[r].inflight => run[r].image.state = "rejected"
            /\ "image" \in run[r].inflight => run[r].speech.state = "rejected"
            /\ run[r].inflight # {} =>
                  /\ ~run[r].response.success
                  /\ run[r].thrown.at = "generateAssets"
                  /\ run[r].all.state = "rejected"

\* The speech call rejected and the response went out with the image call pending
C21_Witness ==
    \E r \in Runs :
        /\ Returned(r)
        /\ run[r].inflight = {"image"}
        /\ run[r].image.state = "inflight"
        /\ run[r].speech.state = "rejected"

\* C22: when every call and file operation settles, a request that has
\* arrived leads to a returned response; a workspace that was created leads
\* to fs.rm being called on it; and no response is returned for a run with a
\* workspace before that deletion has been called and has settled
C22_Terminates ==
    \A r \in Runs :
        /\ (run[r].pc = "ready") ~> Returned(r)
        /\ (run[r].tempDir = "exists") ~> ("rm" \in Issued(run[r]))
        /\ [](Returned(r) /\ run[r].tempDir # "none" =>
                "rm" \in Issued(run[r]) /\ run[r].rmSettled # "none")

\* A run whose writeFile failed has responded after its deletion settled
C22_Witness ==
    \E r \in Runs :
        /\ Returned(r)
        /\ "writeFile(image)" \in run[r].failed
        /\ run[r].tempDir # "none"
        /\ "rm" \in Issued(run[r])
        /\ run[r].rmSettled # "none"

====
